---- MODULE Spec2Model ----
(***************************************************************************)
(* RV32I mini-simulator (src/code/main.py): instruction memory, data       *)
(* memory, register files, the single-stage core, the five-stage core and  *)
(* the driver loop that steps both until both are halted.                  *)
(*                                                                         *)
(* A 32-bit value is a pair <<h, l>> of 16-bit halves (value h*2^16 + l):  *)
(* the model checker's integers are narrower than 2^32.  Python integers   *)
(* that the code leaves unmasked (sign-extended immediates) are Int.       *)
(* A memory cell is the number 0..255 that _byte_to_int yields for the     *)
(* 8-bit literal the code keeps in the list; Malformed stands for a line   *)
(* of the input file on which _byte_to_int raises ValueError.              *)
(***************************************************************************)
EXTENDS Integers, Sequences, FiniteSets, TLC

VARIABLES imem, dmem_ss, dmem_fs, ssCore, fsCore, pc, SS_DMEMResult, FS_DMEMResult, memlog, fsDelivered,
          ssExecuted, snaps, cmp

vars == <<imem, dmem_ss, dmem_fs, ssCore, fsCore, pc, SS_DMEMResult, FS_DMEMResult, memlog, fsDelivered, ssExecuted, snaps>>

(***************************************************************************)
(* Bounds of the model and constants of the program.                       *)
(***************************************************************************)
MaxText == 2

MaxProgLen == 3

CycleBound == 16

MemSize == 1000

max_cycles == 100000

(***************************************************************************)
(* 32-bit words.                                                           *)
(***************************************************************************)
Half == 2^16

Zero == <<0, 0>>

\* v & 0xFFFFFFFF for a Python integer v
Mask32(v) == <<(v \div Half) % Half, v % Half>>

\* (a + b) & 0xFFFFFFFF
AddW(a, b) == <<(a[1] + b[1] + ((a[2] + b[2]) \div Half)) % Half, (a[2] + b[2]) % Half>>

\* (a - b) & 0xFFFFFFFF
SubW(a, b) == <<(a[1] - b[1] + ((a[2] - b[2]) \div Half)) % Half, (a[2] - b[2]) % Half>>

RECURSIVE BitOp(_, _, _, _)
BitOp(op, x, y, n) ==
    IF n = 0 THEN 0
    ELSE LET p == x % 2
             q == y % 2
             r == CASE op = "xor" -> (p + q) % 2
                    [] op = "or"  -> IF p + q > 0 THEN 1 ELSE 0
                    [] op = "and" -> p * q
         IN  r + 2 * BitOp(op, x \div 2, y \div 2, n - 1)

XorW(a, b) == <<BitOp("xor", a[1], b[1], 16), BitOp("xor", a[2], b[2], 16)>>

OrW(a, b) == <<BitOp("or", a[1], b[1], 16), BitOp("or", a[2], b[2], 16)>>

AndW(a, b) == <<BitOp("and", a[1], b[1], 16), BitOp("and", a[2], b[2], 16)>>

\* (w >> sh) & (2^width - 1), for width <= 12
Field(w, sh, width) ==
    IF sh >= 16 THEN (w[1] \div 2^(sh - 16)) % 2^width
    ELSE ((w[2] \div 2^sh) + (w[1] % 2^width) * 2^(16 - sh)) % 2^width

\* a >= n for a word a and a small natural n (a list length)
GeqNat(a, n) == a[1] > 0 \/ a[2] >= n

sign_extend(value, bits) ==
    LET value_masked == value % 2^bits
    IN  IF value_masked >= 2^(bits - 1) THEN value_masked - 2^bits ELSE value_masked

(***************************************************************************)
(* Instruction fields and immediates, as both cores extract them.          *)
(***************************************************************************)
opcode_of(instr) == Field(instr, 0, 7)

rd_of(instr) == Field(instr, 7, 5)

funct3_of(instr) == Field(instr, 12, 3)

rs1_of(instr) == Field(instr, 15, 5)

rs2_of(instr) == Field(instr, 20, 5)

funct7_of(instr) == Field(instr, 25, 7)

imm_i_of(instr) == sign_extend(Field(instr, 20, 12), 12)

imm_s_of(instr) == sign_extend(Field(instr, 25, 7) * 32 + Field(instr, 7, 5), 12)

imm_b_of(instr) ==
    sign_extend(Field(instr, 31, 1) * 4096 + Field(instr, 25, 6) * 32
                + Field(instr, 8, 4) * 2 + Field(instr, 7, 1) * 2048, 13)

imm_j_of(instr) ==
    sign_extend(Field(instr, 31, 1) * 1048576 + Field(instr, 12, 8) * 4096
                + Field(instr, 20, 1) * 2048 + Field(instr, 21, 10) * 2, 21)

(***************************************************************************)
(* Memories.  Address a (a word) is cell a + 1 of the sequence.            *)
(***************************************************************************)
\* a line such as "zz": int(s, 16) raises ValueError when the cell is read
Malformed == -1

\* readInstr raises: one of the four cells it converts is malformed
readRaises(mem, ReadAddress) ==
    \E i \in 0..3 :
        /\ ReadAddress[1] = 0 /\ ReadAddress[2] + i < Len(mem)
        /\ mem[ReadAddress[2] + i + 1] = Malformed

\* a read that wraps around the end of the memory
ByteAt_wrapping(mem, ReadAddress, i) ==
    IF Len(mem) = 0 THEN 0 ELSE mem[((ReadAddress[2] + i) % Len(mem)) + 1] % 256

ByteAt(mem, ReadAddress, i) ==
    IF ReadAddress[1] = 0 /\ ReadAddress[2] + i < Len(mem)
    THEN mem[ReadAddress[2] + i + 1] % 256
    ELSE 0

\* InsMem.readInstr and DataMem.readInstr: big-endian word fetch
readInstr(mem, ReadAddress) ==
    <<ByteAt(mem, ReadAddress, 0) * 256 + ByteAt(mem, ReadAddress, 1),
      ByteAt(mem, ReadAddress, 2) * 256 + ByteAt(mem, ReadAddress, 3)>>

\* DataMem.__init__: the image padded with zero bytes to MemSize
PadTo(mem, n) == IF Len(mem) >= n THEN mem ELSE mem \o [k \in 1..(n - Len(mem)) |-> 0]

LoadDMem(image) == PadTo(image, MemSize)

StoreByte(mem, idx, b) == [PadTo(mem, idx + 1) EXCEPT ![idx + 1] = b]

\* a byte order that puts the low half-word first
bytes_low_half_first(wd) == <<wd[2] \div 256, wd[2] % 256, wd[1] \div 256, wd[1] % 256>>

bytes_be(wd) == <<wd[1] \div 256, wd[1] % 256, wd[2] \div 256, wd[2] % 256>>

\* a write that puts the least significant byte at Address
writeDataMem_lsb_first(DMem, Address, WriteData) ==
    LET a == Address[2]
        bs == bytes_be(WriteData)
    IN  StoreByte(StoreByte(StoreByte(StoreByte(DMem, a, bs[4]), a + 1, bs[3]), a + 2, bs[2]), a + 3, bs[1])

\* DataMem.writeDataMem, for an address below 2^16
writeDataMem(DMem, Address, WriteData) ==
    LET a == Address[2]
        bs == bytes_be(WriteData)
    IN  StoreByte(StoreByte(StoreByte(StoreByte(DMem, a, bs[1]), a + 1, bs[2]), a + 2, bs[3]), a + 3, bs[4])

\* DataMem.outputDataMem: one line per cell of DMem
outputDataMem(DMem) == DMem

(***************************************************************************)
(* Register file.                                                          *)
(***************************************************************************)
NewRegisters == [r \in 0..31 |-> Zero]

readRF(Registers, Reg_addr) ==
    IF Reg_addr < 0 \/ Reg_addr >= 32 THEN Zero ELSE Registers[Reg_addr]

writeRF(Registers, Reg_addr, Wrt_reg_data) ==
    IF Reg_addr = 0 THEN Registers
    ELSE IF Reg_addr < 0 \/ Reg_addr >= 32 THEN Registers
    ELSE [Registers EXCEPT ![Reg_addr] = Wrt_reg_data]

(***************************************************************************)
(* Single-stage core.                                                      *)
(***************************************************************************)
NewSSCore ==
    [state |-> [IF |-> [nop |-> FALSE, PC |-> Zero]],
     myRF |-> NewRegisters,
     cycle |-> 0,
     halted |-> FALSE,
     retired_instructions |-> 0]

\* the R-type / I-type result of SingleStageCore.step; enable is write_back_enable
SS_alu(instr, rs1_val, rs2_val) ==
    LET opcode == opcode_of(instr)
        funct3 == funct3_of(instr)
        funct7 == funct7_of(instr)
        imm_i == imm_i_of(instr)
        yes(v) == [enable |-> TRUE, data |-> v]
        no == [enable |-> FALSE, data |-> Zero]
    IN  IF opcode = 51 THEN
            IF funct3 = 0 /\ funct7 = 0 THEN yes(AddW(rs1_val, rs2_val))
            ELSE IF funct3 = 0 /\ funct7 = 32 THEN yes(SubW(rs1_val, rs2_val))
            ELSE IF funct3 = 4 THEN yes(XorW(rs1_val, rs2_val))
            ELSE IF funct3 = 6 THEN yes(OrW(rs1_val, rs2_val))
            ELSE IF funct3 = 7 THEN yes(AndW(rs1_val, rs2_val))
            ELSE no
        ELSE IF opcode = 19 THEN
            IF funct3 = 0 THEN yes(AddW(rs1_val, Mask32(imm_i)))
            ELSE IF funct3 = 4 THEN yes(XorW(rs1_val, Mask32(imm_i)))
            ELSE IF funct3 = 6 THEN yes(OrW(rs1_val, Mask32(imm_i)))
            ELSE IF funct3 = 7 THEN yes(AndW(rs1_val, Mask32(imm_i)))
            ELSE no
        ELSE no

SS_isLW(instr) == opcode_of(instr) = 3 /\ funct3_of(instr) = 2

SS_isSW(instr) == opcode_of(instr) = 35 /\ funct3_of(instr) = 2

\* the address of the LW or SW the single-stage core executes
SS_addr(instr, rs1_val) ==
    IF SS_isLW(instr) THEN AddW(rs1_val, Mask32(imm_i_of(instr)))
    ELSE AddW(rs1_val, Mask32(imm_s_of(instr)))

SS_branch_taken(instr, rs1_val, rs2_val) ==
    /\ opcode_of(instr) = 99
    /\ \/ funct3_of(instr) = 0 /\ rs1_val = rs2_val
       \/ funct3_of(instr) = 1 /\ rs1_val # rs2_val

\* a JAL whose offset counts from the address after it
SS_nextPC_from_next(instr, PC, rs1_val, rs2_val) ==
    IF SS_branch_taken(instr, rs1_val, rs2_val) THEN AddW(PC, Mask32(imm_b_of(instr)))
    ELSE IF opcode_of(instr) = 111 THEN AddW(AddW(PC, Mask32(4)), Mask32(imm_j_of(instr)))
    ELSE AddW(PC, Mask32(4))

SS_nextPC(instr, PC, rs1_val, rs2_val) ==
    IF SS_branch_taken(instr, rs1_val, rs2_val) THEN AddW(PC, Mask32(imm_b_of(instr)))
    ELSE IF opcode_of(instr) = 111 THEN AddW(PC, Mask32(imm_j_of(instr)))
    ELSE AddW(PC, Mask32(4))

\* a decoder that takes an opcode it does not know for an ADD
SS_write_back_default_add(instr, PC, rs1_val, rs2_val, DMem) ==
    LET opcode == opcode_of(instr)
    IN  IF opcode = 51 \/ opcode = 19 THEN SS_alu(instr, rs1_val, rs2_val)
        ELSE IF SS_isLW(instr) THEN [enable |-> TRUE, data |-> readInstr(DMem, SS_addr(instr, rs1_val))]
        ELSE IF SS_isSW(instr) THEN [enable |-> FALSE, data |-> Zero]
        ELSE IF opcode = 99 THEN [enable |-> FALSE, data |-> Zero]
        ELSE IF opcode = 111 THEN [enable |-> TRUE, data |-> AddW(PC, Mask32(4))]
        ELSE [enable |-> TRUE, data |-> AddW(rs1_val, rs2_val)]

\* write_back_enable / write_back_data of the executed instruction
SS_write_back(instr, PC, rs1_val, rs2_val, DMem) ==
    LET opcode == opcode_of(instr)
    IN  IF opcode = 51 \/ opcode = 19 THEN SS_alu(instr, rs1_val, rs2_val)
        ELSE IF SS_isLW(instr) THEN [enable |-> TRUE, data |-> readInstr(DMem, SS_addr(instr, rs1_val))]
        ELSE IF SS_isSW(instr) THEN [enable |-> FALSE, data |-> Zero]
        ELSE IF opcode = 99 THEN [enable |-> FALSE, data |-> Zero]
        ELSE IF opcode = 111 THEN [enable |-> TRUE, data |-> AddW(PC, Mask32(4))]
        ELSE [enable |-> FALSE, data |-> Zero]

\* "if write_back_enable and rd != 0: self.myRF.writeRF(rd, write_back_data)"
SS_commit(Registers, write_back_enable, rd, write_back_data) ==
    IF write_back_enable /\ rd # 0 THEN writeRF(Registers, rd, write_back_data) ELSE Registers

\* the three ways a step of the single-stage core goes
SS_path(core, IMem) ==
    LET PC == core.state.IF.PC
    IN  IF GeqNat(PC, Len(IMem)) THEN "end"
        ELSE IF opcode_of(readInstr(IMem, PC)) = 127 THEN "halt"
        ELSE "execute"

SS_instr(core, IMem) == readInstr(IMem, core.state.IF.PC)

SS_rs1_val(core, IMem) == readRF(core.myRF, rs1_of(SS_instr(core, IMem)))

SS_rs2_val(core, IMem) == readRF(core.myRF, rs2_of(SS_instr(core, IMem)))

\* the store the step performs, if any
SS_store(core, IMem) ==
    IF SS_path(core, IMem) = "execute" /\ SS_isSW(SS_instr(core, IMem))
    THEN [valid |-> TRUE, addr |-> SS_addr(SS_instr(core, IMem), SS_rs1_val(core, IMem)),
          data |-> SS_rs2_val(core, IMem)]
    ELSE [valid |-> FALSE, addr |-> Zero, data |-> Zero]

\* the load the step performs, if any
SS_load(core, IMem, DMem) ==
    IF SS_path(core, IMem) = "execute" /\ SS_isLW(SS_instr(core, IMem))
    THEN [valid |-> TRUE, addr |-> SS_addr(SS_instr(core, IMem), SS_rs1_val(core, IMem)),
          val |-> readInstr(DMem, SS_addr(SS_instr(core, IMem), SS_rs1_val(core, IMem)))]
    ELSE [valid |-> FALSE, addr |-> Zero, val |-> Zero]

\* the step ends in an uncaught ValueError: its fetch or its load reads a
\* malformed cell
SS_raises(core, IMem, DMem) ==
    /\ SS_path(core, IMem) # "end"
    /\ \/ readRaises(IMem, core.state.IF.PC)
       \/ /\ SS_path(core, IMem) = "execute" /\ SS_isLW(SS_instr(core, IMem))
          /\ readRaises(DMem, SS_addr(SS_instr(core, IMem), SS_rs1_val(core, IMem)))

\* the data memory after SingleStageCore.step
SS_step_dmem(core, IMem, DMem) ==
    IF SS_store(core, IMem).valid
    THEN writeDataMem(DMem, SS_store(core, IMem).addr, SS_store(core, IMem).data)
    ELSE DMem

\* a HALT path without the extra snapshot cycle
SS_halt_one_cycle(core) ==
    [core EXCEPT !.retired_instructions = @ + 1,
                 !.state.IF = [nop |-> TRUE, PC |-> core.state.IF.PC],
                 !.halted = TRUE,
                 !.cycle = @ + 1]

\* the HALT path of SingleStageCore.step
SS_halt(core) ==
    [core EXCEPT !.retired_instructions = @ + 1,
                 !.state.IF = [nop |-> TRUE, PC |-> core.state.IF.PC],
                 !.halted = TRUE,
                 !.cycle = @ + 2]

\* the core after SingleStageCore.step
SS_step(core, IMem, DMem) ==
    LET PC == core.state.IF.PC
        path == SS_path(core, IMem)
        instr == SS_instr(core, IMem)
        rs1_val == SS_rs1_val(core, IMem)
        rs2_val == SS_rs2_val(core, IMem)
        wb == SS_write_back(instr, PC, rs1_val, rs2_val, DMem)
    IN  IF path = "end" THEN
            [core EXCEPT !.state.IF = [nop |-> TRUE, PC |-> PC],
                         !.halted = TRUE,
                         !.cycle = @ + 1]
        ELSE IF path = "halt" THEN SS_halt(core)
        ELSE
            [core EXCEPT !.myRF = SS_commit(core.myRF, wb.enable, rd_of(instr), wb.data),
                         !.state.IF = [nop |-> FALSE, PC |-> SS_nextPC(instr, PC, rs1_val, rs2_val)],
                         !.retired_instructions = @ + 1,
                         !.cycle = @ + 1,
                         !.halted = (core.cycle + 1 >= max_cycles)]

\* a HALT path that leaves one snapshot only
SS_halt_outputs_once(core) ==
    <<[cycle |-> core.cycle, Registers |-> core.myRF,
       state |-> [IF |-> [nop |-> TRUE, PC |-> core.state.IF.PC]]]>>

\* the outputRF / printState calls of the HALT path: a snapshot for the cycle
\* of the HALT and one more for the cycle after it, both of nextState
SS_halt_outputs(core) ==
    LET snap(c) == [cycle |-> c, Registers |-> core.myRF,
                    state |-> [IF |-> [nop |-> TRUE, PC |-> core.state.IF.PC]]]
    IN  <<snap(core.cycle), snap(core.cycle + 1)>>

\* the snapshots SingleStageCore.step appends to SS_RFResult.txt (outputRF)
\* and StateResult_SS.txt (printState): the number it passes, the register
\* file and the state it prints
SS_outputs(core, IMem, DMem) ==
    IF SS_path(core, IMem) = "halt" THEN SS_halt_outputs(core)
    ELSE <<[cycle |-> core.cycle,
            Registers |-> SS_step(core, IMem, DMem).myRF,
            state |-> SS_step(core, IMem, DMem).state]>>

(***************************************************************************)
(* Five-stage core: the latches of State.  In the code's naming ID is the  *)
(* IF/ID latch, EX the ID/EX latch, MEM the EX/MEM latch, WB the MEM/WB    *)
(* latch.                                                                  *)
(***************************************************************************)
ID_bubble == [nop |-> TRUE, Instr |-> Zero, PC |-> Zero]

EX_bubble ==
    [nop |-> TRUE, instr |-> Zero, Read_data1 |-> Zero, Read_data2 |-> Zero, Imm |-> 0,
     Rs |-> 0, Rt |-> 0, Wrt_reg_addr |-> 0, is_I_type |-> FALSE, rd_mem |-> 0,
     wrt_mem |-> 0, alu_op |-> 0, wrt_enable |-> 0, PC |-> Zero, is_jal |-> FALSE]

MEM_bubble ==
    [nop |-> TRUE, ALUresult |-> Zero, Store_data |-> Zero, Rs |-> 0, Rt |-> 0,
     Wrt_reg_addr |-> 0, rd_mem |-> 0, wrt_mem |-> 0, wrt_enable |-> 0]

WB_bubble ==
    [nop |-> TRUE, Wrt_data |-> Zero, Rs |-> 0, Rt |-> 0, Wrt_reg_addr |-> 0, wrt_enable |-> 0]

NewFSCore ==
    [state |-> [IF |-> [nop |-> FALSE, PC |-> Zero, fetch_PC |-> Zero],
                ID |-> ID_bubble, EX |-> EX_bubble, MEM |-> MEM_bubble, WB |-> WB_bubble],
     myRF |-> NewRegisters,
     cycle |-> 0,
     halted |-> FALSE,
     retired_instructions |-> 0]

(***************************************************************************)
(* WB stage.                                                               *)
(***************************************************************************)
\* a write-back without the guard on register 0
FS_WB_unguarded(Registers, WB) ==
    IF ~WB.nop /\ WB.wrt_enable = 1
    THEN [Registers EXCEPT ![WB.Wrt_reg_addr] = WB.Wrt_data]
    ELSE Registers

FS_WB(Registers, WB) ==
    IF ~WB.nop /\ WB.wrt_enable = 1 /\ WB.Wrt_reg_addr # 0
    THEN writeRF(Registers, WB.Wrt_reg_addr, WB.Wrt_data)
    ELSE Registers

\* a counter that also counts the bubbles
FS_retire_bubbles(retired_instructions, WB) ==
    retired_instructions + 1

\* a counter of the register-writing instructions only
FS_retire_writers(retired_instructions, WB) ==
    IF ~WB.nop /\ WB.wrt_enable = 1 THEN retired_instructions + 1 ELSE retired_instructions

FS_retire(retired_instructions, WB) ==
    IF ~WB.nop THEN retired_instructions + 1 ELSE retired_instructions

(***************************************************************************)
(* MEM stage.                                                              *)
(***************************************************************************)
FS_load(MEM, DMem) ==
    IF ~MEM.nop /\ MEM.rd_mem = 1
    THEN [valid |-> TRUE, addr |-> MEM.ALUresult, val |-> readInstr(DMem, MEM.ALUresult)]
    ELSE [valid |-> FALSE, addr |-> Zero, val |-> Zero]

FS_store(MEM) ==
    IF ~MEM.nop /\ MEM.rd_mem # 1 /\ MEM.wrt_mem = 1
    THEN [valid |-> TRUE, addr |-> MEM.ALUresult, data |-> MEM.Store_data]
    ELSE [valid |-> FALSE, addr |-> Zero, data |-> Zero]

FS_MEM_dmem(MEM, DMem) ==
    IF FS_store(MEM).valid THEN writeDataMem(DMem, MEM.ALUresult, MEM.Store_data) ELSE DMem

\* nextState.WB
FS_MEM(MEM, DMem) ==
    IF ~MEM.nop
    THEN [nop |-> FALSE,
          Wrt_data |-> IF MEM.rd_mem = 1 THEN readInstr(DMem, MEM.ALUresult) ELSE MEM.ALUresult,
          Rs |-> MEM.Rs, Rt |-> MEM.Rt, Wrt_reg_addr |-> MEM.Wrt_reg_addr,
          wrt_enable |-> MEM.wrt_enable]
    ELSE WB_bubble

(***************************************************************************)
(* EX stage.                                                               *)
(***************************************************************************)
\* forwarding of one source register reg, whose value latched at decode is Read_data
FS_EX_forward(state, reg, Read_data) ==
    LET MEM == state.MEM
        WB == state.WB
        fromMEM == IF ~MEM.nop /\ MEM.wrt_enable = 1 /\ MEM.Wrt_reg_addr = reg /\ reg # 0
                      /\ MEM.rd_mem # 1
                   THEN MEM.ALUresult ELSE Read_data
    IN  IF ~WB.nop /\ WB.wrt_enable = 1 /\ WB.Wrt_reg_addr = reg /\ reg # 0
           /\ ~(~MEM.nop /\ MEM.wrt_enable = 1 /\ MEM.Wrt_reg_addr = reg)
        THEN WB.Wrt_data ELSE fromMEM

\* "imm_i = sign_extend(Imm, 12) if Imm < 0x800 else Imm"
FS_addr_imm(Imm) == IF Imm < 2048 THEN sign_extend(Imm, 12) ELSE Imm

FS_alu(EX, ex_rs1_val, ex_rs2_val) ==
    LET funct3 == funct3_of(EX.instr)
        funct7 == funct7_of(EX.instr)
        imm_i == imm_i_of(EX.instr)
        r0 == IF EX.is_I_type
              THEN (IF EX.alu_op = 0 THEN AddW(ex_rs1_val, Mask32(EX.Imm)) ELSE Zero)
              ELSE (IF EX.alu_op = 0 THEN AddW(ex_rs1_val, ex_rs2_val)
                    ELSE IF EX.alu_op = 1 THEN SubW(ex_rs1_val, ex_rs2_val) ELSE Zero)
        r1 == IF EX.is_I_type /\ EX.rd_mem # 1 THEN
                  (IF funct3 = 0 THEN AddW(ex_rs1_val, Mask32(imm_i))
                   ELSE IF funct3 = 4 THEN XorW(ex_rs1_val, Mask32(imm_i))
                   ELSE IF funct3 = 6 THEN OrW(ex_rs1_val, Mask32(imm_i))
                   ELSE IF funct3 = 7 THEN AndW(ex_rs1_val, Mask32(imm_i))
                   ELSE r0)
              ELSE r0
        r2 == IF ~EX.is_I_type /\ EX.rd_mem # 1 /\ EX.wrt_mem # 1 THEN
                  (IF funct3 = 0 THEN
                       (IF funct7 = 0 THEN AddW(ex_rs1_val, ex_rs2_val)
                        ELSE IF funct7 = 32 THEN SubW(ex_rs1_val, ex_rs2_val)
                        ELSE r1)
                   ELSE IF funct3 = 4 THEN XorW(ex_rs1_val, ex_rs2_val)
                   ELSE IF funct3 = 6 THEN OrW(ex_rs1_val, ex_rs2_val)
                   ELSE IF funct3 = 7 THEN AndW(ex_rs1_val, ex_rs2_val)
                   ELSE r1)
              ELSE r1
        r3 == IF EX.rd_mem = 1 \/ EX.wrt_mem = 1
              THEN AddW(ex_rs1_val, Mask32(FS_addr_imm(EX.Imm)))
              ELSE r2
    IN  IF EX.is_jal THEN AddW(EX.PC, Mask32(4)) ELSE r3

\* nextState.MEM
FS_EX(state) ==
    LET EX == state.EX
        ex_rs1_val == FS_EX_forward(state, EX.Rs, EX.Read_data1)
        ex_rs2_val == FS_EX_forward(state, EX.Rt, EX.Read_data2)
    IN  IF ~EX.nop
        THEN [nop |-> FALSE, ALUresult |-> FS_alu(EX, ex_rs1_val, ex_rs2_val),
              Store_data |-> ex_rs2_val, Rs |-> EX.Rs, Rt |-> EX.Rt,
              Wrt_reg_addr |-> EX.Wrt_reg_addr, rd_mem |-> EX.rd_mem,
              wrt_mem |-> EX.wrt_mem, wrt_enable |-> EX.wrt_enable]
        ELSE MEM_bubble

(***************************************************************************)
(* ID stage.  Registers is the register file after this step's WB stage.   *)
(***************************************************************************)
FS_load_use_hazard(state) ==
    LET MEM == state.MEM
        rs1 == rs1_of(state.ID.Instr)
        rs2 == rs2_of(state.ID.Instr)
    IN  /\ ~MEM.nop /\ MEM.rd_mem = 1 /\ MEM.wrt_enable = 1
        /\ ~state.ID.nop
        /\ \/ MEM.Wrt_reg_addr = rs1 /\ rs1 # 0
           \/ MEM.Wrt_reg_addr = rs2 /\ rs2 # 0

\* ex_alu_result: the result of the instruction in EX, computed early from the
\* operands latched at decode
FS_ex_alu_result(EX) ==
    LET ex_funct3 == funct3_of(EX.instr)
        ex_funct7 == funct7_of(EX.instr)
        ex_imm_i == imm_i_of(EX.instr)
        ex_rs1_val == EX.Read_data1
        ex_rs2_val == EX.Read_data2
    IN  IF EX.is_I_type THEN
            (IF ex_funct3 = 0 THEN AddW(ex_rs1_val, Mask32(ex_imm_i))
             ELSE IF ex_funct3 = 4 THEN XorW(ex_rs1_val, Mask32(ex_imm_i))
             ELSE IF ex_funct3 = 6 THEN OrW(ex_rs1_val, Mask32(ex_imm_i))
             ELSE IF ex_funct3 = 7 THEN AndW(ex_rs1_val, Mask32(ex_imm_i))
             ELSE Zero)
        ELSE
            (IF ex_funct3 = 0 THEN
                 (IF ex_funct7 = 0 THEN AddW(ex_rs1_val, ex_rs2_val)
                  ELSE IF ex_funct7 = 32 THEN SubW(ex_rs1_val, ex_rs2_val)
                  ELSE Zero)
             ELSE IF ex_funct3 = 4 THEN XorW(ex_rs1_val, ex_rs2_val)
             ELSE IF ex_funct3 = 6 THEN OrW(ex_rs1_val, ex_rs2_val)
             ELSE IF ex_funct3 = 7 THEN AndW(ex_rs1_val, ex_rs2_val)
             ELSE Zero)

\* id_rs1_val / id_rs2_val: the value of source register reg the branch compares
FS_id_val(state, Registers, reg) ==
    LET EX == state.EX
        MEM == state.MEM
        WB == state.WB
        exHit == ~EX.nop /\ EX.wrt_enable = 1 /\ EX.rd_mem # 1
        memHit == ~MEM.nop /\ MEM.wrt_enable = 1
        v0 == readRF(Registers, reg)
        v1 == IF exHit /\ EX.Wrt_reg_addr = reg /\ reg # 0 THEN FS_ex_alu_result(EX) ELSE v0
        v2 == IF memHit /\ MEM.Wrt_reg_addr = reg /\ reg # 0 /\ MEM.rd_mem # 1
              THEN MEM.ALUresult ELSE v1
    IN  IF /\ ~WB.nop /\ WB.wrt_enable = 1 /\ WB.Wrt_reg_addr = reg /\ reg # 0
           /\ ~(exHit /\ EX.Wrt_reg_addr = reg)
           /\ ~(memHit /\ MEM.rd_mem # 1 /\ MEM.Wrt_reg_addr = reg)
        THEN WB.Wrt_data ELSE v2

FS_branch_taken(state, Registers) ==
    LET instr == state.ID.Instr
        id_rs1_val == FS_id_val(state, Registers, rs1_of(instr))
        id_rs2_val == FS_id_val(state, Registers, rs2_of(instr))
    IN  /\ ~state.ID.nop
        /\ opcode_of(instr) = 99
        /\ \/ funct3_of(instr) = 0 /\ id_rs1_val = id_rs2_val
           \/ funct3_of(instr) = 1 /\ id_rs1_val # id_rs2_val

FS_branch_target(state) == AddW(state.ID.PC, Mask32(imm_b_of(state.ID.Instr)))

FS_jal_taken(state) == ~state.ID.nop /\ opcode_of(state.ID.Instr) = 111

FS_jal_target(state) == AddW(state.ID.PC, Mask32(imm_j_of(state.ID.Instr)))

\* ex_rs1_val / ex_rs2_val of the normal decode path: the operand latched into EX
FS_decode_val(state, Registers, reg) ==
    LET MEM == state.MEM
        WB == state.WB
        v0 == readRF(Registers, reg)
        v1 == IF ~MEM.nop /\ MEM.wrt_enable = 1 /\ MEM.Wrt_reg_addr = reg /\ reg # 0
                 /\ MEM.rd_mem # 1
              THEN MEM.ALUresult ELSE v0
    IN  IF /\ ~WB.nop /\ WB.wrt_enable = 1 /\ WB.Wrt_reg_addr = reg /\ reg # 0
           /\ ~(~MEM.nop /\ MEM.wrt_enable = 1 /\ MEM.Wrt_reg_addr = reg)
        THEN WB.Wrt_data ELSE v1

\* the EX latch the normal decode path builds from the ID latch
FS_decode(state, Registers) ==
    LET instr == state.ID.Instr
        opcode == opcode_of(instr)
        funct3 == funct3_of(instr)
        funct7 == funct7_of(instr)
        is_i_type == opcode = 19 \/ opcode = 3
        rd_mem == opcode = 3 /\ funct3 = 2
        wrt_mem == opcode = 35 /\ funct3 = 2
        wrt_enable == (opcode = 51 \/ opcode = 19 \/ opcode = 3 \/ opcode = 111) /\ opcode # 35
        alu_op == IF opcode = 51 THEN (IF funct3 = 0 /\ funct7 = 32 THEN 1 ELSE 0)
                  ELSE IF opcode = 19 THEN (IF funct3 = 4 \/ funct3 = 6 \/ funct3 = 7 THEN 2 ELSE 0)
                  ELSE 0
    IN  [nop |-> FALSE, instr |-> instr,
         Read_data1 |-> FS_decode_val(state, Registers, rs1_of(instr)),
         Read_data2 |-> FS_decode_val(state, Registers, rs2_of(instr)),
         Imm |-> IF is_i_type \/ rd_mem THEN imm_i_of(instr) ELSE imm_s_of(instr),
         Rs |-> rs1_of(instr), Rt |-> rs2_of(instr), Wrt_reg_addr |-> rd_of(instr),
         is_I_type |-> is_i_type,
         rd_mem |-> IF rd_mem THEN 1 ELSE 0,
         wrt_mem |-> IF wrt_mem THEN 1 ELSE 0,
         alu_op |-> alu_op,
         wrt_enable |-> IF wrt_enable THEN 1 ELSE 0,
         PC |-> state.ID.PC,
         is_jal |-> opcode = 111]

\* whether the step takes the normal decode path ("if not ID.nop and not branch_taken")
FS_decodes(state, Registers) == ~state.ID.nop /\ ~FS_branch_taken(state, Registers)

\* an ID/EX bubble that is only marked nop and keeps what decode produced
FS_ID_EX_marked_nop(state, Registers) ==
    IF FS_decodes(state, Registers) THEN FS_decode(state, Registers)
    ELSE [FS_decode(state, Registers) EXCEPT !.nop = TRUE]

\* nextState.EX
FS_ID_EX(state, Registers) ==
    IF FS_decodes(state, Registers) THEN FS_decode(state, Registers) ELSE EX_bubble

\* "Advance ID": the instruction at IF.fetch_PC
FS_fetch_ID(state, IMem) ==
    [nop |-> FALSE, Instr |-> readInstr(IMem, state.IF.fetch_PC), PC |-> state.IF.fetch_PC]

\* an IF/ID latch that a load-use hazard holds for one more step
FS_ID_ID_held(state, Registers, IMem) ==
    IF FS_load_use_hazard(state) THEN state.ID
    ELSE IF ~state.IF.nop /\ ~(FS_decodes(state, Registers) /\ FS_jal_taken(state))
    THEN FS_fetch_ID(state, IMem)
    ELSE ID_bubble

\* nextState.ID
FS_ID_ID(state, Registers, IMem) ==
    IF FS_decodes(state, Registers)
    THEN (IF ~state.IF.nop /\ ~FS_jal_taken(state) THEN FS_fetch_ID(state, IMem) ELSE ID_bubble)
    ELSE (IF ~state.IF.nop THEN FS_fetch_ID(state, IMem) ELSE ID_bubble)

(***************************************************************************)
(* IF stage.                                                               *)
(***************************************************************************)
\* nextState.IF as the ID stage leaves it: a fresh latch, the held latch on a
\* load-use hazard, else the redirect of a taken branch or of a JAL
FS_ID_IF(state, Registers) ==
    LET fresh == [nop |-> FALSE, PC |-> Zero, fetch_PC |-> Zero]
    IN  IF FS_load_use_hazard(state) THEN state.IF
        ELSE IF FS_branch_taken(state, Registers) THEN [fresh EXCEPT !.PC = FS_branch_target(state)]
        ELSE IF FS_jal_taken(state) THEN [fresh EXCEPT !.PC = FS_jal_target(state)]
        ELSE fresh

\* an IF stage that a redirect of the ID stage starts again after it stopped
FS_IF_redirect_restarts(state, Registers, IMem) ==
    LET fromID == FS_ID_IF(state, Registers)
        PC == state.IF.PC
        redirected == FS_branch_taken(state, Registers) \/ FS_jal_taken(state)
    IN  IF FS_load_use_hazard(state) THEN fromID
        ELSE IF state.IF.nop THEN (IF redirected THEN fromID ELSE state.IF)
        ELSE IF GeqNat(PC, Len(IMem)) THEN [nop |-> TRUE, PC |-> PC, fetch_PC |-> PC]
        ELSE IF opcode_of(readInstr(IMem, PC)) = 127 THEN [nop |-> TRUE, PC |-> PC, fetch_PC |-> PC]
        ELSE IF ~redirected THEN [nop |-> FALSE, PC |-> AddW(PC, Mask32(4)), fetch_PC |-> PC]
        ELSE [nop |-> FALSE, PC |-> fromID.PC, fetch_PC |-> PC]

\* nextState.IF
FS_IF(state, Registers, IMem) ==
    LET fromID == FS_ID_IF(state, Registers)
        PC == state.IF.PC
        redirected == FS_branch_taken(state, Registers) \/ FS_jal_taken(state)
    IN  IF FS_load_use_hazard(state) THEN fromID
        ELSE IF state.IF.nop THEN state.IF
        ELSE IF GeqNat(PC, Len(IMem)) THEN [nop |-> TRUE, PC |-> PC, fetch_PC |-> PC]
        ELSE IF opcode_of(readInstr(IMem, PC)) = 127 THEN [nop |-> TRUE, PC |-> PC, fetch_PC |-> PC]
        ELSE IF ~redirected THEN [nop |-> FALSE, PC |-> AddW(PC, Mask32(4)), fetch_PC |-> PC]
        ELSE [nop |-> FALSE, PC |-> fromID.PC, fetch_PC |-> PC]

(***************************************************************************)
(* FiveStageCore.step.                                                     *)
(***************************************************************************)
\* a halt test that looks at the front of the pipeline only
FS_all_nop_front(state) ==
    state.IF.nop /\ state.ID.nop

\* a halt test that does not wait for the MEM/WB latch to drain
FS_all_nop_but_WB(state) ==
    state.IF.nop /\ state.ID.nop /\ state.EX.nop /\ state.MEM.nop

\* the halt condition, on the latches the step starts with
FS_all_nop(state) ==
    state.IF.nop /\ state.ID.nop /\ state.EX.nop /\ state.MEM.nop /\ state.WB.nop

FS_nextState(state, Registers, IMem, DMem) ==
    [IF |-> FS_IF(state, Registers, IMem),
     ID |-> FS_ID_ID(state, Registers, IMem),
     EX |-> FS_ID_EX(state, Registers),
     MEM |-> FS_EX(state),
     WB |-> FS_MEM(state.MEM, DMem)]

\* the step ends in an uncaught ValueError: the load of its MEM stage, the
\* word it delivers to IF/ID or the word its IF stage inspects reads a
\* malformed cell
FS_raises(core, IMem, DMem) ==
    LET state == core.state
        Registers == FS_WB(core.myRF, state.WB)
    IN  \/ ~state.MEM.nop /\ state.MEM.rd_mem = 1 /\ readRaises(DMem, state.MEM.ALUresult)
        \/ /\ ~state.IF.nop /\ ~(FS_decodes(state, Registers) /\ FS_jal_taken(state))
           /\ readRaises(IMem, state.IF.fetch_PC)
        \/ /\ ~FS_load_use_hazard(state) /\ ~state.IF.nop
           /\ readRaises(IMem, state.IF.PC)

FS_step_dmem(core, DMem) == FS_MEM_dmem(core.state.MEM, DMem)

\* a step whose ID stage reads the register file before the WB stage writes it
FS_step_ID_before_WB(core, IMem, DMem) ==
    [state |-> FS_nextState(core.state, core.myRF, IMem, DMem),
     myRF |-> FS_WB(core.myRF, core.state.WB),
     cycle |-> core.cycle + 1,
     halted |-> FS_all_nop(core.state) \/ core.cycle + 1 >= max_cycles,
     retired_instructions |-> FS_retire(core.retired_instructions, core.state.WB)]

FS_step(core, IMem, DMem) ==
    LET Registers == FS_WB(core.myRF, core.state.WB)
    IN  [state |-> FS_nextState(core.state, Registers, IMem, DMem),
         myRF |-> Registers,
         cycle |-> core.cycle + 1,
         halted |-> FS_all_nop(core.state) \/ core.cycle + 1 >= max_cycles,
         retired_instructions |-> FS_retire(core.retired_instructions, core.state.WB)]

\* a step that numbers its snapshot after it has advanced the cycle counter
FS_outputs_after_increment(core, IMem, DMem) ==
    <<[cycle |-> core.cycle + 1,
       Registers |-> FS_step(core, IMem, DMem).myRF,
       state |-> FS_step(core, IMem, DMem).state]>>

\* the snapshot FiveStageCore.step appends to FS_RFResult.txt (outputRF) and
\* StateResult_FS.txt (printState of nextState)
FS_outputs(core, IMem, DMem) ==
    <<[cycle |-> core.cycle,
       Registers |-> FS_step(core, IMem, DMem).myRF,
       state |-> FS_step(core, IMem, DMem).state]>>

(***************************************************************************)
(* Program images the model runs: every sequence of 1..MaxProgLen          *)
(* instructions of Pool, one byte per line of imem.txt, and the data       *)
(* images of DmemImages.                                                   *)
(***************************************************************************)
\* the word with the given R-format fields
Pack(f7, rs2, rs1, f3, rd, op) ==
    <<f7 * 512 + rs2 * 16 + rs1 \div 2, (rs1 % 2) * 32768 + f3 * 4096 + rd * 128 + op>>

ADDI(rd, rs1, imm) == Pack((imm % 4096) \div 32, imm % 32, rs1, 0, rd, 19)

ADD(rd, rs1, rs2) == Pack(0, rs2, rs1, 0, rd, 51)

LW(rd, imm, rs1) == Pack((imm % 4096) \div 32, imm % 32, rs1, 2, rd, 3)

SW(rs2, imm, rs1) == Pack((imm % 4096) \div 32, rs2, rs1, 2, imm % 32, 35)

BEQ(rs1, rs2, imm) ==
    Pack(((imm % 8192) \div 4096) * 64 + ((imm % 2048) \div 32), rs2, rs1, 0,
         ((imm % 32) \div 2) * 2 + ((imm % 4096) \div 2048), 99)

BNE(rs1, rs2, imm) ==
    Pack(((imm % 8192) \div 4096) * 64 + ((imm % 2048) \div 32), rs2, rs1, 1,
         ((imm % 32) \div 2) * 2 + ((imm % 4096) \div 2048), 99)

JAL(rd, imm) ==
    LET u == ((imm % 2097152) \div 1048576) * 524288 + ((imm % 2048) \div 2) * 512
             + ((imm % 4096) \div 2048) * 256 + ((imm % 1048576) \div 4096)
    IN  Pack(u \div 8192, (u \div 256) % 32, (u \div 8) % 32, u % 8, rd, 111)

HALT == <<0, 127>>

Pool ==
    {ADDI(1, 1, 5), ADD(3, 1, 2), SW(1, 0, 0), LW(2, 0, 0), BEQ(0, 0, 8), JAL(3, 8),
     HALT, SW(1, 998, 0), JAL(0, -4)}

Programs == UNION {[1..n -> Pool] : n \in 1..MaxProgLen}

\* the bytes of imem.txt for a program: each word big-endian
ImemOf(prog) ==
    LET ByteOf(w, j) == IF j = 1 THEN w[1] \div 256 ELSE IF j = 2 THEN w[1] % 256
                        ELSE IF j = 3 THEN w[2] \div 256 ELSE w[2] % 256
    IN  [k \in 1..(4 * Len(prog)) |-> ByteOf(prog[(k + 3) \div 4], ((k - 1) % 4) + 1)]

DmemImages == {<<>>, <<1, 2, 3, 4>>}

NoStore == [valid |-> FALSE, addr |-> Zero, data |-> Zero]

NoLoad == [valid |-> FALSE, addr |-> Zero, val |-> Zero]

\* the log of a core's last store and of the last load after it
LogMem(log, st, ld) ==
    IF st.valid THEN [st |-> st, ld |-> NoLoad]
    ELSE IF ld.valid THEN [log EXCEPT !.ld = ld]
    ELSE log

(***************************************************************************)
(* compare_outputs.py: the comparison of a results directory with a sample *)
(* directory.  A file is its text, a sequence of characters; a directory   *)
(* is a function from the names of its files to their texts.  A line is a  *)
(* sequence of characters, the empty line the empty sequence.  The printed *)
(* report, and with it max_diffs_per_file, is left out.                    *)
(***************************************************************************)
NL == "\n"

Chars == {"a", NL}

Texts == UNION {[1..n -> Chars] : n \in 0..MaxText}

Files == {"f", "g"}

Dirs == UNION {[S -> Texts] : S \in SUBSET Files}

RECURSIVE rstrip(_)
\* line.rstrip("\n")
rstrip(line) ==
    IF line # <<>> /\ line[Len(line)] = NL THEN rstrip(SubSeq(line, 1, Len(line) - 1)) ELSE line

RECURSIVE readlines(_)
\* f.readlines(): the text cut after each newline
readlines(text) ==
    IF text = <<>> THEN <<>>
    ELSE LET ends == {k \in 1..Len(text) : text[k] = NL}
         IN  IF ends = {} THEN <<text>>
             ELSE LET k == CHOOSE e \in ends : \A o \in ends : e <= o
                  IN  <<SubSeq(text, 1, k)>> \o readlines(SubSeq(text, k + 1, Len(text)))

read_lines(text) == LET ls == readlines(text) IN [i \in 1..Len(ls) |-> rstrip(ls[i])]

\* the entries (line number, left, right) of the lines that differ; the
\* missing side of a longer list is the empty line
diff_lines(a_lines, b_lines) ==
    LET max_len == IF Len(a_lines) >= Len(b_lines) THEN Len(a_lines) ELSE Len(b_lines)
        left(i) == IF i <= Len(a_lines) THEN a_lines[i] ELSE <<>>
        right(i) == IF i <= Len(b_lines) THEN b_lines[i] ELSE <<>>
        differs(e) == e[2] # e[3]
    IN  SelectSeq([i \in 1..max_len |-> <<i, left(i), right(i)>>], differs)

\* the exit code of compare_dirs
compare_dirs(results_dir, sample_dir) ==
    LET res_files == DOMAIN results_dir
        samp_files == DOMAIN sample_dir
        only_in_results == res_files \ samp_files
        only_in_sample == samp_files \ res_files
        common == res_files \cap samp_files
    IN  IF only_in_results # {} \/ only_in_sample # {} THEN 1
        ELSE IF \E fname \in common :
                    diff_lines(read_lines(results_dir[fname]), read_lines(sample_dir[fname])) # <<>>
             THEN 1
        ELSE 0

NoCompare == [results_dir |-> <<>>, sample_dir |-> <<>>, exit_code |-> 0, returned |-> FALSE]

(***************************************************************************)
(* The driver: __main__.                                                   *)
(***************************************************************************)
Init ==
    /\ imem \in {ImemOf(p) : p \in Programs}
    /\ \E image \in DmemImages : dmem_ss = LoadDMem(image) /\ dmem_fs = LoadDMem(image)
    /\ ssCore = NewSSCore
    /\ fsCore = NewFSCore
    /\ pc = "ss"
    /\ SS_DMEMResult = <<>>
    /\ FS_DMEMResult = <<>>
    /\ memlog = [SS |-> [st |-> NoStore, ld |-> NoLoad], FS |-> [st |-> NoStore, ld |-> NoLoad]]
    /\ fsDelivered = <<>>
    /\ ssExecuted = 0
    /\ snaps = [SS |-> <<>>, FS |-> <<>>]
    /\ cmp = NoCompare

\* a loop that is never left
DriverBreak_never(ss, fs) == ss.halted /\ fs.halted /\ ss.cycle > max_cycles + 2

\* "if ssCore.halted and fsCore.halted: break"
DriverBreak(ss, fs) == ss.halted /\ fs.halted

\* a driver that hands one DataMem instance to both cores: what the
\* single-stage core stores shows in the memory of the five-stage core
SSStep_shared_dmem ==
    /\ pc = "ss"
    /\ ~ssCore.halted
    /\ ssCore.cycle < CycleBound
    /\ ~SS_raises(ssCore, imem, dmem_ss)
    /\ SS_store(ssCore, imem).valid => SS_store(ssCore, imem).addr[1] = 0
    /\ ssCore' = SS_step(ssCore, imem, dmem_ss)
    /\ dmem_ss' = SS_step_dmem(ssCore, imem, dmem_ss)
    /\ dmem_fs' = IF SS_store(ssCore, imem).valid
                  THEN writeDataMem(dmem_fs, SS_store(ssCore, imem).addr, SS_store(ssCore, imem).data)
                  ELSE dmem_fs
    /\ memlog' = [memlog EXCEPT !.SS = LogMem(@, SS_store(ssCore, imem), SS_load(ssCore, imem, dmem_ss))]
    /\ ssExecuted' = IF SS_path(ssCore, imem) = "execute" THEN ssExecuted + 1 ELSE ssExecuted
    /\ snaps' = [snaps EXCEPT !.SS = SS_outputs(ssCore, imem, dmem_ss)]
    /\ pc' = "fs"
    /\ UNCHANGED <<imem, fsCore, SS_DMEMResult, FS_DMEMResult, fsDelivered, cmp>>

\* "if not ssCore.halted: ssCore.step()"
SSStep ==
    /\ pc = "ss"
    /\ ~ssCore.halted
    /\ ssCore.cycle < CycleBound
    /\ ~SS_raises(ssCore, imem, dmem_ss)
    /\ SS_store(ssCore, imem).valid => SS_store(ssCore, imem).addr[1] = 0
    /\ ssCore' = SS_step(ssCore, imem, dmem_ss)
    /\ dmem_ss' = SS_step_dmem(ssCore, imem, dmem_ss)
    /\ memlog' = [memlog EXCEPT !.SS = LogMem(@, SS_store(ssCore, imem), SS_load(ssCore, imem, dmem_ss))]
    /\ ssExecuted' = IF SS_path(ssCore, imem) = "execute" THEN ssExecuted + 1 ELSE ssExecuted
    /\ snaps' = [snaps EXCEPT !.SS = SS_outputs(ssCore, imem, dmem_ss)]
    /\ pc' = "fs"
    /\ UNCHANGED <<imem, dmem_fs, fsCore, SS_DMEMResult, FS_DMEMResult, fsDelivered, cmp>>

\* a driver that calls step() on the single-stage core whether it has
\* halted or not
SSSkip_steps ==
    /\ pc = "ss"
    /\ ssCore.halted
    /\ ssCore.cycle < CycleBound
    /\ ~SS_raises(ssCore, imem, dmem_ss)
    /\ ssCore' = SS_step(ssCore, imem, dmem_ss)
    /\ dmem_ss' = SS_step_dmem(ssCore, imem, dmem_ss)
    /\ snaps' = [snaps EXCEPT !.SS = SS_outputs(ssCore, imem, dmem_ss)]
    /\ pc' = "fs"
    /\ UNCHANGED <<imem, dmem_fs, fsCore, SS_DMEMResult, FS_DMEMResult, memlog, fsDelivered, ssExecuted, cmp>>

\* the turn of a single-stage core that has halted: step() is not called
SSSkip ==
    /\ pc = "ss"
    /\ ssCore.halted
    /\ pc' = "fs"
    /\ UNCHANGED <<imem, dmem_ss, dmem_fs, ssCore, fsCore, SS_DMEMResult, FS_DMEMResult, memlog, fsDelivered, ssExecuted, snaps, cmp>>

\* "if not fsCore.halted: fsCore.step()", then "if ssCore.halted and fsCore.halted: break"
FSStep ==
    /\ pc = "fs"
    /\ ~fsCore.halted
    /\ fsCore.cycle < CycleBound
    /\ ~FS_raises(fsCore, imem, dmem_fs)
    /\ FS_store(fsCore.state.MEM).valid => fsCore.state.MEM.ALUresult[1] = 0
    /\ fsCore' = FS_step(fsCore, imem, dmem_fs)
    /\ dmem_fs' = FS_step_dmem(fsCore, dmem_fs)
    /\ memlog' = [memlog EXCEPT !.FS = LogMem(@, FS_store(fsCore.state.MEM), FS_load(fsCore.state.MEM, dmem_fs))]
    /\ fsDelivered' = IF fsCore'.state.ID.nop THEN fsDelivered
                      ELSE Append(fsDelivered, [PC |-> fsCore'.state.ID.PC, Instr |-> fsCore'.state.ID.Instr])
    /\ snaps' = [snaps EXCEPT !.FS = FS_outputs(fsCore, imem, dmem_fs)]
    /\ pc' = IF DriverBreak(ssCore, fsCore') THEN "dump" ELSE "ss"
    /\ UNCHANGED <<imem, dmem_ss, ssCore, SS_DMEMResult, FS_DMEMResult, ssExecuted, cmp>>

FSSkip ==
    /\ pc = "fs"
    /\ fsCore.halted
    /\ pc' = IF DriverBreak(ssCore, fsCore) THEN "dump" ELSE "ss"
    /\ UNCHANGED <<imem, dmem_ss, dmem_fs, ssCore, fsCore, SS_DMEMResult, FS_DMEMResult, memlog, fsDelivered, ssExecuted, snaps, cmp>>

\* "dmem_ss.outputDataMem(); dmem_fs.outputDataMem()"
Dump ==
    /\ pc = "dump"
    /\ SS_DMEMResult' = outputDataMem(dmem_ss)
    /\ FS_DMEMResult' = outputDataMem(dmem_fs)
    /\ pc' = "done"
    /\ UNCHANGED <<imem, dmem_ss, dmem_fs, ssCore, fsCore, memlog, fsDelivered, ssExecuted, snaps, cmp>>

Next == SSStep \/ SSSkip \/ FSStep \/ FSSkip \/ Dump

Spec == Init /\ [][Next]_vars

(***************************************************************************)
(* Further inputs: programs with an opcode the cores do not know, an       *)
(* all-zero word and accesses beyond the end of the data memory, and a     *)
(* data image with a malformed line.  A step that reads a malformed cell   *)
(* ends the run with the uncaught ValueError.                              *)
(***************************************************************************)
\* opcode 0x37, which neither core decodes, with rd = rs1 = rs2 = 1
UNDEF == Pack(0, 1, 1, 0, 1, 55)

ExtPool ==
    {ADDI(1, 1, 5), UNDEF, Zero, HALT, JAL(0, -4), BEQ(0, 0, 8), LW(2, 998, 0), SW(1, 1500, 0)}

ExtPrograms == UNION {[1..n -> ExtPool] : n \in 1..MaxProgLen}

\* dmem.txt with MemSize lines, the last of them malformed
MalformedImage == [LoadDMem(<<1, 2, 3, 4>>) EXCEPT ![MemSize] = Malformed]

ExtImages == {<<1, 2, 3, 4>>, MalformedImage}

InitExt ==
    /\ imem \in {ImemOf(p) : p \in ExtPrograms}
    /\ \E image \in ExtImages : dmem_ss = LoadDMem(image) /\ dmem_fs = LoadDMem(image)
    /\ ssCore = NewSSCore
    /\ fsCore = NewFSCore
    /\ pc = "ss"
    /\ SS_DMEMResult = <<>>
    /\ FS_DMEMResult = <<>>
    /\ memlog = [SS |-> [st |-> NoStore, ld |-> NoLoad], FS |-> [st |-> NoStore, ld |-> NoLoad]]
    /\ fsDelivered = <<>>
    /\ ssExecuted = 0
    /\ snaps = [SS |-> <<>>, FS |-> <<>>]
    /\ cmp = NoCompare

\* ssCore.step() raises: the process ends with a traceback
SSRaise ==
    /\ pc = "ss"
    /\ ~ssCore.halted
    /\ ssCore.cycle < CycleBound
    /\ SS_raises(ssCore, imem, dmem_ss)
    /\ pc' = "error"
    /\ UNCHANGED <<imem, dmem_ss, dmem_fs, ssCore, fsCore, SS_DMEMResult, FS_DMEMResult, memlog, fsDelivered, ssExecuted, snaps, cmp>>

\* fsCore.step() raises: the process ends with a traceback
FSRaise ==
    /\ pc = "fs"
    /\ ~fsCore.halted
    /\ fsCore.cycle < CycleBound
    /\ FS_raises(fsCore, imem, dmem_fs)
    /\ pc' = "error"
    /\ UNCHANGED <<imem, dmem_ss, dmem_fs, ssCore, fsCore, SS_DMEMResult, FS_DMEMResult, memlog, fsDelivered, ssExecuted, snaps, cmp>>

NextExt == SSStep \/ SSSkip \/ FSStep \/ FSSkip \/ Dump \/ SSRaise \/ FSRaise

SpecExt == InitExt /\ [][NextExt]_vars

(***************************************************************************)
(* Long runs: the same driver, one action per iteration of its loop, on a  *)
(* few programs and with no bound on the cycle counters other than the     *)
(* cores' own max_cycles.  The delivery history and the snapshots are not   *)
(* recorded here.                                                          *)
(***************************************************************************)
RunPrograms == {<<BEQ(0, 0, 0), ADDI(1, 1, 5)>>, <<ADDI(1, 1, 5), HALT>>}

InitRun ==
    /\ imem \in {ImemOf(p) : p \in RunPrograms}
    /\ dmem_ss = LoadDMem(<<>>)
    /\ dmem_fs = LoadDMem(<<>>)
    /\ ssCore = NewSSCore
    /\ fsCore = NewFSCore
    /\ pc = "ss"
    /\ SS_DMEMResult = <<>>
    /\ FS_DMEMResult = <<>>
    /\ memlog = [SS |-> [st |-> NoStore, ld |-> NoLoad], FS |-> [st |-> NoStore, ld |-> NoLoad]]
    /\ fsDelivered = <<>>
    /\ ssExecuted = 0
    /\ snaps = [SS |-> <<>>, FS |-> <<>>]
    /\ cmp = NoCompare

\* one iteration of "while True": the step of each core that is not halted,
\* then the test that leaves the loop
Iteration ==
    /\ pc = "ss"
    /\ SS_store(ssCore, imem).valid => SS_store(ssCore, imem).addr[1] = 0
    /\ FS_store(fsCore.state.MEM).valid => fsCore.state.MEM.ALUresult[1] = 0
    /\ ssCore' = IF ssCore.halted THEN ssCore ELSE SS_step(ssCore, imem, dmem_ss)
    /\ dmem_ss' = IF ssCore.halted THEN dmem_ss ELSE SS_step_dmem(ssCore, imem, dmem_ss)
    /\ fsCore' = IF fsCore.halted THEN fsCore ELSE FS_step(fsCore, imem, dmem_fs)
    /\ dmem_fs' = IF fsCore.halted THEN dmem_fs ELSE FS_step_dmem(fsCore, dmem_fs)
    /\ ssExecuted' = IF ~ssCore.halted /\ SS_path(ssCore, imem) = "execute"
                     THEN ssExecuted + 1 ELSE ssExecuted
    /\ pc' = IF DriverBreak(ssCore', fsCore') THEN "dump" ELSE "ss"
    /\ UNCHANGED <<imem, SS_DMEMResult, FS_DMEMResult, memlog, fsDelivered, snaps, cmp>>

NextRun == Iteration \/ Dump

SpecRun == InitRun /\ [][NextRun]_vars

(***************************************************************************)
(* Programs with branches that compare registers written or loaded just   *)
(* before them, taken and not taken, jumps forward and backward, and an    *)
(* opcode the cores do not know.                                           *)
(***************************************************************************)
BrPool ==
    {ADDI(1, 1, 5), ADD(2, 1, 0), BEQ(2, 1, 8), BEQ(2, 0, 8), HALT, JAL(0, -4),
     LW(2, 0, 0), BNE(2, 0, 8), JAL(3, 8), UNDEF}

BrPrograms == UNION {[1..n -> BrPool] : n \in 1..MaxProgLen}

InitBr ==
    /\ imem \in {ImemOf(p) : p \in BrPrograms}
    /\ dmem_ss = LoadDMem(<<>>)
    /\ dmem_fs = LoadDMem(<<>>)
    /\ ssCore = NewSSCore
    /\ fsCore = NewFSCore
    /\ pc = "ss"
    /\ SS_DMEMResult = <<>>
    /\ FS_DMEMResult = <<>>
    /\ memlog = [SS |-> [st |-> NoStore, ld |-> NoLoad], FS |-> [st |-> NoStore, ld |-> NoLoad]]
    /\ fsDelivered = <<>>
    /\ ssExecuted = 0
    /\ snaps = [SS |-> <<>>, FS |-> <<>>]
    /\ cmp = NoCompare

SpecBr == InitBr /\ [][Next]_vars

(***************************************************************************)
(* The comparison tool on its own: two directories of at most two files    *)
(* each, every file a text of at most MaxText characters.                  *)
(***************************************************************************)
InitCmp ==
    /\ imem = <<>>
    /\ dmem_ss = LoadDMem(<<>>)
    /\ dmem_fs = LoadDMem(<<>>)
    /\ ssCore = NewSSCore
    /\ fsCore = NewFSCore
    /\ pc = "cmp"
    /\ SS_DMEMResult = <<>>
    /\ FS_DMEMResult = <<>>
    /\ memlog = [SS |-> [st |-> NoStore, ld |-> NoLoad], FS |-> [st |-> NoStore, ld |-> NoLoad]]
    /\ fsDelivered = <<>>
    /\ ssExecuted = 0
    /\ snaps = [SS |-> <<>>, FS |-> <<>>]
    /\ \E r \in Dirs, s \in Dirs :
            cmp = [results_dir |-> r, sample_dir |-> s, exit_code |-> 0, returned |-> FALSE]

\* main(): code = compare_dirs(...); sys.exit(code)
CompareDirs ==
    /\ pc = "cmp"
    /\ ~cmp.returned
    /\ cmp' = [cmp EXCEPT !.exit_code = compare_dirs(cmp.results_dir, cmp.sample_dir),
                          !.returned = TRUE]
    /\ UNCHANGED <<imem, dmem_ss, dmem_fs, ssCore, fsCore, pc, SS_DMEMResult, FS_DMEMResult, memlog,
                   fsDelivered, ssExecuted, snaps>>

NextCmp == CompareDirs

SpecCmp == InitCmp /\ [][NextCmp]_vars

(***************************************************************************)
(* Vocabulary of the properties.                                           *)
(***************************************************************************)
BothHalted == pc \in {"dump", "done"}

\* instruction instr reads register reg (reg # 0) as a source operand
InstrReads(instr, reg) ==
    /\ reg # 0
    /\ \/ rs1_of(instr) = reg /\ opcode_of(instr) \in {51, 19, 3, 35, 99}
       \/ rs2_of(instr) = reg /\ opcode_of(instr) \in {51, 35, 99}

WordAt(IMem, k) == readInstr(IMem, Mask32(4 * k))

\* no LW rd (rd # 0) of the image is immediately followed by a reader of rd
NoLoadUse(IMem) ==
    \A k \in 0..((Len(IMem) \div 4) - 2) :
        ~(SS_isLW(WordAt(IMem, k)) /\ InstrReads(WordAt(IMem, k + 1), rd_of(WordAt(IMem, k))))

ByteSwap(w) == <<(w[2] % 256) * 256 + w[2] \div 256, (w[1] % 256) * 256 + w[1] \div 256>>

MSBFirst(w) == <<w[1] \div 256, w[1] % 256, w[2] \div 256, w[2] % 256>>

LSBFirst(w) == <<w[2] % 256, w[2] \div 256, w[1] % 256, w[1] \div 256>>

InRange(addr) == addr[1] = 0 /\ addr[2] + 3 < MemSize

\* memory after is memory before with the four bytes bs at cells a..a+3, grown
\* with zero bytes when it was shorter, and nothing else changed
StoredAs(before, after, a, bs) ==
    /\ Len(after) = (IF a + 4 > Len(before) THEN a + 4 ELSE Len(before))
    /\ \A i \in 1..Len(after) :
          after[i] = (IF i - 1 >= a /\ i - 1 <= a + 3 THEN bs[i - a]
                      ELSE IF i <= Len(before) THEN before[i] ELSE 0)

\* the log of core c shows a load from the address of the store before it
RoundTrip(c) ==
    /\ memlog[c].st.valid /\ memlog[c].ld.valid
    /\ memlog[c].ld.addr = memlog[c].st.addr
    /\ InRange(memlog[c].st.addr)

(***************************************************************************)
(* C1: for a program in which no load is immediately followed by a reader  *)
(* of its destination, once both cores have halted the register file and   *)
(* the data memory of the five-stage core equal those of the single-stage  *)
(* core.                                                                   *)
(***************************************************************************)
C1_ForwardingEquivalence ==
    (BothHalted /\ NoLoadUse(imem)) => (fsCore.myRF = ssCore.myRF /\ dmem_fs = dmem_ss)

(***************************************************************************)
(* C2: a load LW rd (rd # 0) and an instruction that reads rd are          *)
(* separated by a bubble in the five-stage core: the load is never in the  *)
(* EX/MEM latch while its reader is in the ID/EX latch right behind it     *)
(* (where forwarding cannot supply the loaded value).                      *)
(***************************************************************************)
C2_LoadUseBubble ==
    LET MEM == fsCore.state.MEM
        EX == fsCore.state.EX
    IN  (~MEM.nop /\ MEM.rd_mem = 1 /\ MEM.Wrt_reg_addr # 0)
            => ~(~EX.nop /\ InstrReads(EX.instr, MEM.Wrt_reg_addr))

(***************************************************************************)
(* C3: the step in which decode resolves a BEQ/BNE as taken produces a     *)
(* nop IF/ID latch: the instruction fetched sequentially after the branch  *)
(* is squashed.                                                            *)
(***************************************************************************)
C3_TakenBranchSquashes ==
    [][(FSStep /\ FS_branch_taken(fsCore.state, FS_WB(fsCore.myRF, fsCore.state.WB)))
          => fsCore'.state.ID.nop]_vars

(***************************************************************************)
(* C4: after a JAL at address P the five-stage core continues at P + off:  *)
(* the next instruction delivered to decode is the one at P + off, so the  *)
(* instructions between the JAL and its target are skipped.                *)
(***************************************************************************)
C4_JalContinuesAtTarget ==
    \A i \in 1..(Len(fsDelivered) - 1) :
        opcode_of(fsDelivered[i].Instr) = 111
            => fsDelivered[i + 1].PC = AddW(fsDelivered[i].PC, Mask32(imm_j_of(fsDelivered[i].Instr)))

C7_RegisterZero == ssCore.myRF[0] = Zero /\ fsCore.myRF[0] = Zero

\* both cores have run to the end a program that starts with JAL x0, whose
\* link value PC + 4 is not zero
C7_Witness ==
    /\ pc = "done"
    /\ opcode_of(WordAt(imem, 0)) = 111 /\ rd_of(WordAt(imem, 0)) = 0
    /\ ssCore.retired_instructions > 0 /\ fsCore.retired_instructions > 0
    /\ C7_RegisterZero

(***************************************************************************)
(* C8: the data memory image each core dumps at the end of the run has     *)
(* exactly MemSize = 1000 bytes.                                           *)
(***************************************************************************)
C8_DumpLength ==
    pc = "done" => (Len(SS_DMEMResult) = MemSize /\ Len(FS_DMEMResult) = MemSize)

(***************************************************************************)
(* C9: below the cycle cap, a step of the five-stage core sets halted      *)
(* exactly when it begins with all five latches nop.                       *)
(***************************************************************************)
C9_HaltAfterAllNop ==
    [][(FSStep /\ fsCore'.cycle < max_cycles)
          => (fsCore'.halted <=> (/\ fsCore.state.IF.nop /\ fsCore.state.ID.nop
                                  /\ fsCore.state.EX.nop /\ fsCore.state.MEM.nop
                                  /\ fsCore.state.WB.nop))]_vars

\* the five-stage core has halted below the cap after retiring instructions
C9_Witness ==
    /\ fsCore.halted /\ fsCore.cycle < max_cycles /\ fsCore.retired_instructions > 0
    /\ FS_all_nop(fsCore.state)

(***************************************************************************)
(* C10: when the fetch of the five-stage core has reached a HALT, the      *)
(* HALT word was delivered into the IF/ID latch exactly once over the run. *)
(***************************************************************************)
C10_HaltInjectedOnce ==
    LET IFl == fsCore.state.IF
    IN  (/\ pc = "done"
         /\ IFl.nop /\ ~GeqNat(IFl.PC, Len(imem))
         /\ opcode_of(readInstr(imem, IFl.PC)) = 127)
            => Cardinality({i \in DOMAIN fsDelivered : opcode_of(fsDelivered[i].Instr) = 127}) = 1

(***************************************************************************)
(* C11: a step of the five-stage core adds exactly one to the retirement   *)
(* counter when the MEM/WB latch it begins with is not nop, whether or not *)
(* that instruction writes a register, and leaves the counter as it is     *)
(* when the MEM/WB latch is nop.                                           *)
(***************************************************************************)
C11_RetireOnePerWB ==
    [][FSStep => fsCore'.retired_instructions =
                    fsCore.retired_instructions + (IF fsCore.state.WB.nop THEN 0 ELSE 1)]_vars

\* the five-stage core has retired an instruction that writes no register
C11_Witness ==
    /\ fsCore.retired_instructions > 0
    /\ fsCore.state.IF.nop /\ fsCore.state.ID.nop /\ fsCore.state.EX.nop
    /\ fsCore.state.MEM.nop /\ fsCore.state.WB.nop
    /\ \A i \in DOMAIN fsDelivered : opcode_of(fsDelivered[i].Instr) \in {35, 99}

(***************************************************************************)
(* C12: when the single-stage core has executed k instructions and then    *)
(* fetched HALT, its retirement counter is k + 1 and its cycle counter is  *)
(* k + 2.                                                                  *)
(***************************************************************************)
C12_SingleStageCounts ==
    (/\ ssCore.halted
     /\ ~GeqNat(ssCore.state.IF.PC, Len(imem))
     /\ opcode_of(readInstr(imem, ssCore.state.IF.PC)) = 127)
        => (/\ ssCore.retired_instructions = ssExecuted + 1
            /\ ssCore.cycle = ssExecuted + 2)

\* the single-stage core has executed two instructions and halted on a HALT
C12_Witness ==
    /\ ssCore.halted
    /\ ~GeqNat(ssCore.state.IF.PC, Len(imem))
    /\ opcode_of(readInstr(imem, ssCore.state.IF.PC)) = 127
    /\ ssExecuted = 2 /\ ssCore.retired_instructions = 3 /\ ssCore.cycle = 4

\* a register/immediate ALU instruction: ADD, SUB, XOR, OR, AND, ADDI, XORI,
\* ORI, ANDI
IsALU(instr) ==
    \/ /\ opcode_of(instr) = 51
       /\ \/ funct3_of(instr) = 0 /\ funct7_of(instr) \in {0, 32}
          \/ funct3_of(instr) \in {4, 6, 7}
    \/ opcode_of(instr) = 19 /\ funct3_of(instr) \in {0, 4, 6, 7}

\* the image starts with n ALU instructions followed by HALT
StraightLine(IMem, n) ==
    /\ 4 * (n + 1) <= Len(IMem)
    /\ \A k \in 0..(n - 1) : IsALU(WordAt(IMem, k))
    /\ opcode_of(WordAt(IMem, n)) = 127

(***************************************************************************)
(* C13: for a program of n ALU instructions followed by HALT, once both    *)
(* cores have halted the five-stage core has retired n + 1 instructions,   *)
(* as the single-stage core has, and its cycle counter is at least n + 5.  *)
(***************************************************************************)
C13_StraightLineCounts ==
    BothHalted =>
        \A n \in 0..MaxProgLen :
            StraightLine(imem, n) =>
                /\ fsCore.retired_instructions = n + 1
                /\ ssCore.retired_instructions = n + 1
                /\ fsCore.cycle >= n + 5

\* both cores have finished a program of two ALU instructions and HALT
C13_Witness ==
    /\ BothHalted
    /\ StraightLine(imem, 2)
    /\ fsCore.retired_instructions = 3 /\ ssCore.retired_instructions = 3
    /\ fsCore.cycle >= 7

(***************************************************************************)
(* C14: the single-stage core is halted once its cycle counter has reached *)
(* 10,000, so it executes no step with a cycle counter of 10,000 or more.  *)
(***************************************************************************)
C14_SingleStageCap == ssCore.cycle >= 10000 => ssCore.halted

\* what is left of the run: the steps each core may still take before its
\* cycle cap stops it, and the dump
Rank ==
    LET left(core) == IF core.halted THEN 0 ELSE max_cycles + 1 - core.cycle
    IN  left(ssCore) + left(fsCore) + (IF pc = "done" THEN 0 ELSE IF pc = "dump" THEN 1 ELSE 2)

(***************************************************************************)
(* C15: the driver loop terminates: an iteration of the loop always has a  *)
(* core that is not halted to step, else the loop is left for the memory   *)
(* dumps, and every step reduces what is left of the run (a natural        *)
(* number), because a core that is not halted is below its cycle cap and   *)
(* its step raises its cycle counter or halts it.                          *)
(***************************************************************************)
C15_DriverTerminates ==
    /\ [](/\ Rank \in Nat
          /\ pc \in {"ss", "dump", "done"}
          /\ pc = "ss" => (~ssCore.halted \/ ~fsCore.halted))
    /\ [][Rank' < Rank]_vars

\* the run is over: both cores are halted and both images are dumped
C15_Witness ==
    /\ pc = "done"
    /\ ssCore.halted /\ fsCore.halted
    /\ SS_DMEMResult = dmem_ss /\ FS_DMEMResult = dmem_fs

\* an opcode that is neither one of the supported instructions nor HALT
Unknown(instr) == opcode_of(instr) \notin {51, 19, 3, 35, 99, 111, 127}

WordOrZero(mem, a) ==
    LET B(i) == IF a + i < Len(mem) THEN mem[a + i + 1] ELSE 0
    IN  <<B(0) * 256 + B(1), B(2) * 256 + B(3)>>

(***************************************************************************)
(* C17: data memory accesses beyond the end of the memory do not fail.  A  *)
(* load yields 0 for every byte at or beyond the current length and leaves *)
(* the memory as it is; a store at an address at or beyond the current     *)
(* length extends the memory with zero bytes to that address plus 4 and    *)
(* stores the four bytes there.  This holds for both cores.                *)
(***************************************************************************)
C17_OutOfRangeAccess ==
    [][LET ss_i == SS_instr(ssCore, imem)
           ss_ld == SS_path(ssCore, imem) = "execute" /\ SS_isLW(ss_i)
           ss_st == SS_store(ssCore, imem)
           MEM == fsCore.state.MEM
       IN  /\ (SSStep /\ ss_ld)
                => /\ dmem_ss' = dmem_ss
                   /\ rd_of(ss_i) # 0 =>
                        ssCore'.myRF[rd_of(ss_i)]
                            = WordOrZero(dmem_ss, SS_addr(ss_i, SS_rs1_val(ssCore, imem))[2])
           /\ (SSStep /\ ss_st.valid /\ ss_st.addr[2] >= Len(dmem_ss))
                => StoredAs(dmem_ss, dmem_ss', ss_st.addr[2], MSBFirst(ss_st.data))
           /\ (FSStep /\ ~MEM.nop /\ MEM.rd_mem = 1)
                => /\ dmem_fs' = dmem_fs
                   /\ fsCore'.state.WB.Wrt_data = WordOrZero(dmem_fs, MEM.ALUresult[2])
           /\ (FSStep /\ ~MEM.nop /\ MEM.rd_mem # 1 /\ MEM.wrt_mem = 1 /\ MEM.ALUresult[2] >= Len(dmem_fs))
                => StoredAs(dmem_fs, dmem_fs', MEM.ALUresult[2], MSBFirst(MEM.Store_data))]_vars

\* both cores have loaded from 998, two bytes of it beyond the end of the
\* 1000-byte memory, and then stored a non-zero word at 1500
C17_Witness ==
    /\ pc = "done"
    /\ WordAt(imem, 0) = LW(2, 998, 0)
    /\ ssCore.myRF[2] = Zero /\ fsCore.myRF[2] = Zero
    /\ Len(dmem_ss) = 1504 /\ Len(dmem_fs) = 1504
    /\ dmem_ss[1504] = 5 /\ dmem_fs[1504] # 0
    /\ dmem_ss[1001] = 0 /\ dmem_fs[1001] = 0

(***************************************************************************)
(* C18: the cores are isolated.  A step of the single-stage core leaves    *)
(* the five-stage core (latches, register file, counters, halted flag) and *)
(* its data memory as they are, a step of the five-stage core leaves the   *)
(* single-stage core and its data memory as they are, and no step changes  *)
(* the instruction memory.                                                 *)
(***************************************************************************)
C18_CoresIsolated ==
    [][/\ SSStep => (fsCore' = fsCore /\ dmem_fs' = dmem_fs)
       /\ FSStep => (ssCore' = ssCore /\ dmem_ss' = dmem_ss)
       /\ imem' = imem]_vars

\* both cores have stored and finished, with different register files and
\* different data memories
C18_Witness ==
    /\ pc = "done"
    /\ memlog.SS.st.valid /\ memlog.FS.st.valid
    /\ ssCore.myRF # fsCore.myRF
    /\ dmem_ss # dmem_fs

(***************************************************************************)
(* C19: a malformed line in dmem.txt makes the run end with an error: the  *)
(* run never completes with a malformed line still in a data memory.       *)
(***************************************************************************)
C19_MalformedFailsRun ==
    pc = "done" =>
        /\ \A i \in DOMAIN dmem_ss : dmem_ss[i] # Malformed
        /\ \A i \in DOMAIN dmem_fs : dmem_fs[i] # Malformed

(***************************************************************************)
(* C20: the single-stage core stops when it fetches an all-zero word       *)
(* inside the instruction memory: the step that fetches it halts the core. *)
(***************************************************************************)
C20_ZeroWordStops ==
    [][(SSStep /\ SS_path(ssCore, imem) # "end" /\ SS_instr(ssCore, imem) = Zero)
          => ssCore'.halted]_vars

(***************************************************************************)
(* C21: when the single-stage core fetches HALT at address P in cycle c,   *)
(* the step emits exactly two snapshots, numbered c and c + 1, both with   *)
(* IF.nop = True and IF.PC = P and both with the register file the step    *)
(* started with, and the core is halted afterwards.                        *)
(***************************************************************************)
C21_HaltTwoSnapshots ==
    [][(SSStep /\ ~GeqNat(ssCore.state.IF.PC, Len(imem))
               /\ readInstr(imem, ssCore.state.IF.PC) = HALT)
          => /\ Len(snaps'.SS) = 2
             /\ snaps'.SS[1].cycle = ssCore.cycle
             /\ snaps'.SS[2].cycle = ssCore.cycle + 1
             /\ \A k \in {1, 2} :
                   /\ snaps'.SS[k].state.IF = [nop |-> TRUE, PC |-> ssCore.state.IF.PC]
                   /\ snaps'.SS[k].Registers = ssCore.myRF
             /\ ssCore'.halted]_vars

\* the core has halted on a HALT at address 8 fetched in cycle 2, after
\* writing a register
C21_Witness ==
    /\ ssCore.halted
    /\ Len(snaps.SS) = 2
    /\ snaps.SS[1].cycle = 2
    /\ snaps.SS[1].state.IF.PC = <<0, 8>>
    /\ snaps.SS[1].Registers[1] # Zero

(***************************************************************************)
(* C22: whenever the ID/EX latch holds a load with rd # 0 and the          *)
(* instruction in the IF/ID latch has rs1 = rd or rs2 = rd, the step of    *)
(* the five-stage core stalls: the ID/EX latch it produces is nop and the  *)
(* IF/ID and IF latches it produces equal the current ones.                *)
(***************************************************************************)
C22_LoadUseStall ==
    [][LET EX == fsCore.state.EX
           ID == fsCore.state.ID
       IN  (/\ FSStep
            /\ ~EX.nop /\ EX.rd_mem = 1 /\ EX.Wrt_reg_addr # 0
            /\ ~ID.nop
            /\ (rs1_of(ID.Instr) = EX.Wrt_reg_addr \/ rs2_of(ID.Instr) = EX.Wrt_reg_addr))
              => /\ fsCore'.state.EX.nop
                 /\ fsCore'.state.ID = ID
                 /\ fsCore'.state.IF = fsCore.state.IF]_vars

(***************************************************************************)
(* C23: whenever the decode of the five-stage core resolves a taken        *)
(* BEQ/BNE or a JAL at address P, the IF latch the step produces is not    *)
(* nop and its PC is P plus the immediate, whatever lies at the sequential *)
(* fetch address and whether or not IF was already nop.                    *)
(***************************************************************************)
C23_RedirectReachesFetch ==
    [][LET state == fsCore.state
           Registers == FS_WB(fsCore.myRF, state.WB)
           taken == FS_branch_taken(state, Registers)
           target == IF taken THEN FS_branch_target(state) ELSE FS_jal_target(state)
       IN  (FSStep /\ (taken \/ FS_jal_taken(state)))
              => (~fsCore'.state.IF.nop /\ fsCore'.state.IF.PC = target)]_vars

\* the operand the forwarding rule prescribes for source register reg of the
\* instruction in ID/EX, whose value latched at decode is latched
Forwarded(state, reg, latched) ==
    LET MEM == state.MEM
        WB == state.WB
    IN  IF reg = 0 THEN latched
        ELSE IF ~MEM.nop /\ MEM.wrt_enable = 1 /\ MEM.rd_mem # 1 /\ MEM.Wrt_reg_addr = reg
             THEN MEM.ALUresult
        ELSE IF ~WB.nop /\ WB.wrt_enable = 1 /\ WB.Wrt_reg_addr = reg
             THEN WB.Wrt_data
        ELSE latched

(***************************************************************************)
(* C24: for each source register rs # 0 of the instruction in EX the       *)
(* operand used is EX/MEM.ALUresult if EX/MEM is not nop, writes a         *)
(* register, is not a load and has rd = rs; else the MEM/WB write data if  *)
(* MEM/WB is not nop, writes a register and has rd = rs (also when EX/MEM  *)
(* is a load to rs); else the value latched in ID/EX at decode.  The       *)
(* operands show in the EX/MEM latch the step produces: the store data is  *)
(* the second operand and the ALU result is computed from both.            *)
(***************************************************************************)
C24_ExForwarding ==
    [][LET state == fsCore.state
           EX == state.EX
           op1 == Forwarded(state, EX.Rs, EX.Read_data1)
           op2 == Forwarded(state, EX.Rt, EX.Read_data2)
       IN  (FSStep /\ ~EX.nop)
              => /\ fsCore'.state.MEM.Store_data = op2
                 /\ fsCore'.state.MEM.ALUresult = FS_alu(EX, op1, op2)]_vars

\* the value of register reg that reflects every older instruction still in
\* flight in the five-stage core: the result the EX stage computes in this
\* step if the instruction in ID/EX writes reg, else the result in EX/MEM if
\* that instruction writes reg, else the register after this step's WB stage
InFlight(core, reg) ==
    LET EX == core.state.EX
        MEM == core.state.MEM
    IN  IF reg = 0 THEN Zero
        ELSE IF ~EX.nop /\ EX.wrt_enable = 1 /\ EX.Wrt_reg_addr = reg
             THEN FS_EX(core.state).ALUresult
        ELSE IF ~MEM.nop /\ MEM.wrt_enable = 1 /\ MEM.Wrt_reg_addr = reg
             THEN MEM.ALUresult
        ELSE FS_WB(core.myRF, core.state.WB)[reg]

\* no load in ID/EX or EX/MEM writes register reg
NoLoadFeeds(core, reg) ==
    /\ ~(~core.state.EX.nop /\ core.state.EX.rd_mem = 1 /\ core.state.EX.Wrt_reg_addr = reg)
    /\ ~(~core.state.MEM.nop /\ core.state.MEM.rd_mem = 1 /\ core.state.MEM.Wrt_reg_addr = reg)

(***************************************************************************)
(* C25: the values a BEQ/BNE compares in the decode of the five-stage core *)
(* reflect the results of all older instructions still in flight, also     *)
(* results that were computed from forwarded operands, when no load feeds  *)
(* the branch.  The decision shows in the ID/EX latch the step produces:   *)
(* a bubble when the branch is taken, the branch itself when it is not.    *)
(***************************************************************************)
C25_BranchOperands ==
    [][LET ID == fsCore.state.ID
           rs1 == rs1_of(ID.Instr)
           rs2 == rs2_of(ID.Instr)
           equal == InFlight(fsCore, rs1) = InFlight(fsCore, rs2)
           taken == IF funct3_of(ID.Instr) = 0 THEN equal ELSE ~equal
       IN  (/\ FSStep
            /\ ~ID.nop /\ opcode_of(ID.Instr) = 99 /\ funct3_of(ID.Instr) \in {0, 1}
            /\ NoLoadFeeds(fsCore, rs1) /\ NoLoadFeeds(fsCore, rs2))
              => (fsCore'.state.EX.nop <=> taken)]_vars

\* the instruction in MEM/WB writes register reg in this step
WBWrites(core, reg) ==
    /\ ~core.state.WB.nop /\ core.state.WB.wrt_enable = 1
    /\ core.state.WB.Wrt_reg_addr = reg /\ reg # 0

\* the instruction in EX/MEM is a forwarding source for register reg
MEMForwards(core, reg) ==
    /\ ~core.state.MEM.nop /\ core.state.MEM.wrt_enable = 1
    /\ core.state.MEM.Wrt_reg_addr = reg /\ core.state.MEM.rd_mem # 1

(***************************************************************************)
(* C26: a step of the five-stage core evaluates WB, MEM, EX, ID, IF in     *)
(* that order on the current latches and builds the next ones.  Every      *)
(* instruction moves by one latch per step (MEM/WB from EX/MEM, EX/MEM     *)
(* from ID/EX, ID/EX from IF/ID), and the register read of ID observes the *)
(* write WB made in the same step: a source register that WB writes and    *)
(* EX/MEM does not forward is latched with the value WB wrote.             *)
(***************************************************************************)
C26_ReverseTraversal ==
    [][LET state == fsCore.state
           next == fsCore'.state
       IN  FSStep
              => /\ next.WB.nop = state.MEM.nop
                 /\ ~state.MEM.nop => next.WB.Wrt_reg_addr = state.MEM.Wrt_reg_addr
                 /\ next.MEM.nop = state.EX.nop
                 /\ ~state.EX.nop => next.MEM.Wrt_reg_addr = state.EX.Wrt_reg_addr
                 /\ ~next.EX.nop => (~state.ID.nop /\ next.EX.instr = state.ID.Instr)
                 /\ (~next.EX.nop /\ WBWrites(fsCore, next.EX.Rs) /\ ~MEMForwards(fsCore, next.EX.Rs))
                       => next.EX.Read_data1 = state.WB.Wrt_data
                 /\ (~next.EX.nop /\ WBWrites(fsCore, next.EX.Rt) /\ ~MEMForwards(fsCore, next.EX.Rt))
                       => next.EX.Read_data2 = state.WB.Wrt_data]_vars

\* ADD x3,x1,x2 has been decoded in the step in which WB wrote the loaded
\* word to x2 while EX/MEM held another load to x2: no forwarding applied,
\* and the operand latched is the word WB wrote
C26_Witness ==
    LET state == fsCore.state
    IN  /\ ~state.EX.nop /\ state.EX.instr = ADD(3, 1, 2)
        /\ state.EX.Read_data2 = <<258, 772>>
        /\ ~state.WB.nop /\ state.WB.Wrt_reg_addr = 2 /\ state.WB.Wrt_data = <<258, 772>>
        /\ fsCore.myRF[2] = <<258, 772>>

(***************************************************************************)
(* C27: a register write performed by WB in cycle n is visible in cycle    *)
(* n + 1 and not before: the register-file snapshot the five-stage core    *)
(* emits for cycle n shows the register as it was before the write.        *)
(***************************************************************************)
C27_WriteVisibleNextCycle ==
    [][LET WB == fsCore.state.WB
           rd == WB.Wrt_reg_addr
       IN  (FSStep /\ WBWrites(fsCore, rd) /\ WB.Wrt_data # fsCore.myRF[rd])
              => /\ snaps'.FS[1].cycle = fsCore.cycle
                 /\ snaps'.FS[1].Registers[rd] = fsCore.myRF[rd]]_vars

(***************************************************************************)
(* C28: no architectural write comes from a bubble.  A step of the         *)
(* five-stage core whose MEM/WB latch is nop leaves the register file and  *)
(* the retirement counter as they are, and a step whose EX/MEM latch is    *)
(* nop leaves the data memory as it is.                                    *)
(***************************************************************************)
C28_NoWriteFromBubble ==
    [][FSStep
          => /\ fsCore.state.WB.nop
                  => /\ fsCore'.myRF = fsCore.myRF
                     /\ fsCore'.retired_instructions = fsCore.retired_instructions
             /\ fsCore.state.MEM.nop => dmem_fs' = dmem_fs]_vars

\* the core has stepped four times with a nop MEM/WB latch, nothing is
\* retired or written, and the first instruction is now in MEM/WB
C28_Witness ==
    /\ fsCore.cycle = 4
    /\ fsCore.retired_instructions = 0
    /\ fsCore.myRF = NewRegisters
    /\ ~fsCore.state.WB.nop /\ fsCore.state.WB.wrt_enable = 1

(***************************************************************************)
(* C29: in every reachable state of the five-stage core each of the        *)
(* IF/ID, ID/EX, EX/MEM and MEM/WB latches that is marked nop has all its  *)
(* other fields equal to zero (False for the flags).                       *)
(***************************************************************************)
C29_BubblesAreZero ==
    LET ID == fsCore.state.ID
        EX == fsCore.state.EX
        MEM == fsCore.state.MEM
        WB == fsCore.state.WB
    IN  /\ ID.nop => (ID.Instr = Zero /\ ID.PC = Zero)
        /\ EX.nop =>
              /\ EX.instr = Zero /\ EX.Read_data1 = Zero /\ EX.Read_data2 = Zero
              /\ EX.Imm = 0 /\ EX.Rs = 0 /\ EX.Rt = 0 /\ EX.Wrt_reg_addr = 0
              /\ EX.is_I_type = FALSE /\ EX.rd_mem = 0 /\ EX.wrt_mem = 0
              /\ EX.alu_op = 0 /\ EX.wrt_enable = 0 /\ EX.PC = Zero /\ EX.is_jal = FALSE
        /\ MEM.nop =>
              /\ MEM.ALUresult = Zero /\ MEM.Store_data = Zero /\ MEM.Rs = 0 /\ MEM.Rt = 0
              /\ MEM.Wrt_reg_addr = 0 /\ MEM.rd_mem = 0 /\ MEM.wrt_mem = 0
              /\ MEM.wrt_enable = 0
        /\ WB.nop =>
              /\ WB.Wrt_data = Zero /\ WB.Rs = 0 /\ WB.Rt = 0 /\ WB.Wrt_reg_addr = 0
              /\ WB.wrt_enable = 0

\* a bubble the decode of a taken branch produced, between the instruction
\* before the branch (now in EX/MEM) and the one after it (now in IF/ID)
C29_Witness ==
    /\ fsCore.state.EX.nop
    /\ ~fsCore.state.MEM.nop
    /\ ~fsCore.state.ID.nop
    /\ fsCore.cycle >= 3

IsBranch(instr) == opcode_of(instr) = 99 /\ funct3_of(instr) \in {0, 1}

(***************************************************************************)
(* C31: a not-taken BEQ/BNE changes no register and no data memory in      *)
(* either core and causes no redirect and no squash in the five-stage      *)
(* core.  The single-stage step that executes it leaves registers and      *)
(* memory as they are and moves the PC by 4.  The five-stage step that     *)
(* decodes it passes the branch to ID/EX with no write enabled, delivers   *)
(* the sequentially fetched instruction to IF/ID and moves the fetch on:   *)
(* the address delivered next is the one fetched in this step, so that no  *)
(* instruction after the branch is delivered twice, and the PC advances by *)
(* 4 unless the fetch stops at a HALT or at the end of the memory.         *)
(***************************************************************************)
C31_NotTakenBranch ==
    [][LET ss_i == SS_instr(ssCore, imem)
           ss_PC == ssCore.state.IF.PC
           state == fsCore.state
           next == fsCore'.state
           Registers == FS_WB(fsCore.myRF, state.WB)
           PC == state.IF.PC
           fetching == /\ ~state.IF.nop /\ ~GeqNat(PC, Len(imem))
                       /\ opcode_of(readInstr(imem, PC)) # 127
       IN  /\ (/\ SSStep /\ SS_path(ssCore, imem) = "execute" /\ IsBranch(ss_i)
               /\ ~SS_branch_taken(ss_i, SS_rs1_val(ssCore, imem), SS_rs2_val(ssCore, imem)))
                 => /\ ssCore'.myRF = ssCore.myRF
                    /\ dmem_ss' = dmem_ss
                    /\ ssCore'.state.IF.PC = AddW(ss_PC, Mask32(4))
           /\ (/\ FSStep /\ ~state.ID.nop /\ IsBranch(state.ID.Instr)
               /\ ~FS_branch_taken(state, Registers))
                 => /\ ~next.EX.nop /\ next.EX.instr = state.ID.Instr
                    /\ next.EX.wrt_enable = 0 /\ next.EX.wrt_mem = 0 /\ next.EX.rd_mem = 0
                    /\ ~state.IF.nop =>
                          (/\ ~next.ID.nop /\ next.ID.PC = state.IF.fetch_PC
                           /\ next.IF.fetch_PC = PC)
                    /\ fetching =>
                          (~next.IF.nop /\ next.IF.PC = AddW(PC, Mask32(4)))]_vars

(***************************************************************************)
(* C32: the PC of the single-stage core after it executes a non-HALT       *)
(* instruction at address P is P + imm_b (mod 2^32) for a taken BEQ/BNE,   *)
(* P + imm_j (mod 2^32) for a JAL, which also writes P + 4 to rd when      *)
(* rd # 0, and P + 4 (mod 2^32) for every other instruction, not-taken     *)
(* branches and unknown opcodes included.                                  *)
(***************************************************************************)
C32_SingleStageNextPC ==
    [][LET P == ssCore.state.IF.PC
           instr == readInstr(imem, P)
           a == ssCore.myRF[rs1_of(instr)]
           b == ssCore.myRF[rs2_of(instr)]
           taken == /\ opcode_of(instr) = 99
                    /\ \/ funct3_of(instr) = 0 /\ a = b
                       \/ funct3_of(instr) = 1 /\ a # b
           isJAL == opcode_of(instr) = 111
           expected == IF taken THEN AddW(P, Mask32(imm_b_of(instr)))
                       ELSE IF isJAL THEN AddW(P, Mask32(imm_j_of(instr)))
                       ELSE AddW(P, Mask32(4))
       IN  (SSStep /\ ~GeqNat(P, Len(imem)) /\ opcode_of(instr) # 127)
              => /\ ssCore'.state.IF.PC = expected
                 /\ (isJAL /\ rd_of(instr) # 0)
                       => ssCore'.myRF[rd_of(instr)] = AddW(P, Mask32(4))]_vars

\* the core has executed the not-taken BNE at address 0 and then JAL x3,8 at
\* address 4: x3 holds 8 and the PC is 12
C32_Witness ==
    /\ WordAt(imem, 0) = BNE(2, 0, 8)
    /\ WordAt(imem, 1) = JAL(3, 8)
    /\ ssExecuted = 2
    /\ ssCore.myRF[3] = <<0, 8>>
    /\ ssCore.state.IF = [nop |-> FALSE, PC |-> <<0, 12>>]

\* C33: diff_lines reports every length difference: after the comparison,
\* each common file has at least as many diff entries as line indexes that
\* only one of its two line lists has, its diff list is empty only when the
\* two line lists are identical, and the exit code is 0 only when every
\* common file is line-for-line identical
C33_LengthDifferencesReported ==
    cmp.returned =>
        \A fname \in DOMAIN cmp.results_dir \cap DOMAIN cmp.sample_dir :
            LET a_lines == read_lines(cmp.results_dir[fname])
                b_lines == read_lines(cmp.sample_dir[fname])
                only_one == IF Len(a_lines) >= Len(b_lines) THEN Len(a_lines) - Len(b_lines)
                            ELSE Len(b_lines) - Len(a_lines)
            IN  /\ Len(diff_lines(a_lines, b_lines)) >= only_one
                /\ diff_lines(a_lines, b_lines) = <<>> => a_lines = b_lines
                /\ cmp.exit_code = 0 => a_lines = b_lines

\* the image holds no branch and no jump
NoControlTransfer(IMem) ==
    \A k \in 0..((Len(IMem) \div 4) - 1) : opcode_of(WordAt(IMem, k)) \notin {99, 111}

\* C34: in the five-stage core, on a program without branches or jumps, no
\* instruction address is delivered into the IF/ID latch more than once, and
\* once the core has halted every address before the HALT has been delivered
\* exactly once
C34_DeliveredExactlyOnce ==
    NoControlTransfer(imem) =>
        /\ \A i, j \in DOMAIN fsDelivered : fsDelivered[i].PC = fsDelivered[j].PC => i = j
        /\ fsCore.halted =>
                \A k \in 0..((Len(imem) \div 4) - 1) :
                    (\A m \in 0..k : opcode_of(WordAt(imem, m)) # 127)
                        => Cardinality({i \in DOMAIN fsDelivered : fsDelivered[i].PC = Mask32(4 * k)}) = 1

C36_HaltedCoreFrozen ==
    [][/\ ssCore.halted => (ssCore' = ssCore /\ dmem_ss' = dmem_ss)
       /\ fsCore.halted => (fsCore' = fsCore /\ dmem_fs' = dmem_fs)
       /\ (pc = "ss" /\ ~ssCore.halted) => (ssCore'.cycle > ssCore.cycle /\ fsCore' = fsCore)
       /\ (pc = "fs" /\ ~fsCore.halted) => (fsCore'.cycle > fsCore.cycle /\ ssCore' = ssCore)
       /\ pc \in {"ss", "fs"} => pc' \in {"ss", "fs"} \/ (ssCore'.halted /\ fsCore'.halted)]_vars

\* the single-stage core halted after three cycles and the five-stage core
\* has been stepped twice more since
C36_Witness ==
    /\ pc = "ss"
    /\ ssCore.halted
    /\ ssCore.cycle = 3
    /\ ~fsCore.halted
    /\ fsCore.cycle = 5

\* C37: each step of a core emits the snapshots numbered from the cycle
\* counter it starts with up to the cycle counter it ends with less one, in
\* order, one register-file and state snapshot per number, and nothing else
\* emits a snapshot; the counters start at 0, so over a run the numbers are
\* 0, 1, 2, ... without gap or repeat and after every step the number of
\* snapshots emitted equals the cycle counter (two numbers on the HALT path
\* of the single-stage core, one on every other path)
C37_SnapshotNumbers ==
    [][/\ IF ssCore' # ssCore
          THEN /\ Len(snaps'.SS) = ssCore'.cycle - ssCore.cycle
               /\ Len(snaps'.SS) = (IF SS_path(ssCore, imem) = "halt" THEN 2 ELSE 1)
               /\ \A i \in DOMAIN snaps'.SS : snaps'.SS[i].cycle = ssCore.cycle + i - 1
          ELSE snaps'.SS = snaps.SS
       /\ IF fsCore' # fsCore
          THEN /\ Len(snaps'.FS) = fsCore'.cycle - fsCore.cycle
               /\ Len(snaps'.FS) = 1
               /\ snaps'.FS[1].cycle = fsCore.cycle
          ELSE snaps'.FS = snaps.FS]_vars

\* a program without HALT: the single-stage core stopped at the end of the
\* instruction memory in its second step, which emitted snapshot 1
C37_Witness ==
    /\ ssCore.halted
    /\ GeqNat(ssCore.state.IF.PC, Len(imem))
    /\ ssCore.cycle = 2
    /\ Len(snaps.SS) = 1
    /\ snaps.SS[1].cycle = 1
    /\ fsCore.cycle = 2
    /\ snaps.FS[1].cycle = 1

====
